---- MODULE Spec2Model ----
(***************************************************************************)
(* A model of the homeopathy RAG system.                                   *)
(*                                                                         *)
(*   backend/main.py    the serving process: startup_event and the         *)
(*                      search_remedies / chat_with_remedies handlers      *)
(*                      (specification Spec);                              *)
(*   backend/ingest.py  the ingestion script, steps 1-7 (specification     *)
(*                      SpecIngest).                                       *)
(*                                                                         *)
(* The vector index service, the embedding encoder and the generative      *)
(* service are collaborators: every call to one of them either returns or  *)
(* raises, chosen nondeterministically.  An absent value (Python's None)   *)
(* is the empty sequence and a present value x is <<x>>.                   *)
(***************************************************************************)
EXTENDS Integers, Sequences, FiniteSets, TLC

(***************************************************************************)
(* Bounds of the model.                                                    *)
(***************************************************************************)
MaxQueryLen == 2
MaxHits == 2
MaxRequests == 2
MaxChunks == 51
MaxRuns == 2

(***************************************************************************)
(* Program constants of backend/main.py.                                   *)
(***************************************************************************)
GEMINI_MODEL_FALLBACKS ==
  << "models/gemini-flash-latest", "models/gemini-pro-latest",
     "models/gemini-2.0-flash", "models/gemini-2.5-flash" >>

TOP_K_MIN == 1
TOP_K_MAX == 50
CHAT_TOP_K == 5
SNIPPET_LEN == 500

(***************************************************************************)
(* Program constants of backend/ingest.py.                                 *)
(***************************************************************************)
INDEX_NAME == "homeopathy_remedies"
BATCH_SIZE == 50
PREVIEW_LEN == 300

None == << >>
Some(x) == << x >>

(***************************************************************************)
(* Inputs.  A query is a sequence of characters; " " and "\t" are the      *)
(* whitespace str.strip() removes.                                         *)
(***************************************************************************)
Whitespace == {" ", "\t"}
Chars == Whitespace \cup {"a"}

RECURSIVE SeqsUpTo(_, _)
SeqsUpTo(S, n) ==
  IF n = 0 THEN {<< >>}
  ELSE LET shorter == SeqsUpTo(S, n - 1)
       IN shorter \cup {Append(s, x) : s \in {t \in shorter : Len(t) = n - 1}, x \in S}

Queries == SeqsUpTo(Chars, MaxQueryLen)
TopKs == {-1, 0, 1, CHAT_TOP_K, TOP_K_MAX, TOP_K_MAX + 1}

(***************************************************************************)
(* What the index may hold: raw hits as index.query returns them, some     *)
(* with keys missing (the handler reads every key with a default).         *)
(***************************************************************************)
RawHits ==
  { [id |-> "chunk_0", similarity |-> 9,
     meta |-> [remedy_name |-> "A", text_preview |-> "pa", full_text |-> <<"f", "a">>]],
    [id |-> "chunk_1", similarity |-> 7,
     meta |-> [remedy_name |-> "B", text_preview |-> "pb"]],
    [id |-> "chunk_2", similarity |-> 7] }

NoDup(s) == \A i, j \in 1..Len(s) : i # j => s[i] # s[j]

\* index.query(vector, top_k): at most top_k hits, no hit twice.
QueryReturns(k) ==
  {s \in SeqsUpTo(RawHits, MaxHits) : Len(s) <= k /\ NoDup(s)}

VARIABLES
  \* backend/main.py: the process and its module globals
  phase, startup_error, api_key,
  endee_client, embedding_model, index, gemini_model,
  \* backend/main.py: the request being handled and what it did
  nreq, handler, pc, query, top_k,
  search_called, search_outcome, encode_calls, query_log,
  search_res, context_text, cand, last_error, response, gen_log,
  status, detail, answer, sources,
  \* the vector index service, as backend/ingest.py sees it
  server_indexes, server_records,
  \* backend/ingest.py: the run in progress and what it did
  run, ipc, corpus_file, chunks, existing_names, user_input, index_ref,
  vectors_to_upsert, offset, lifecycle_log, upsert_log, failed_step,
  reported_complete, at_start, previous_run

serveVars ==
  << phase, startup_error, api_key,
     endee_client, embedding_model, index, gemini_model,
     nreq, handler, pc, query, top_k,
     search_called, search_outcome, encode_calls, query_log,
     search_res, context_text, cand, last_error, response, gen_log,
     status, detail, answer, sources >>

ingestVars ==
  << server_indexes, server_records,
     run, ipc, corpus_file, chunks, existing_names, user_input, index_ref,
     vectors_to_upsert, offset, lifecycle_log, upsert_log, failed_step,
     reported_complete, at_start, previous_run >>

vars == << serveVars, ingestVars >>

globals == << endee_client, embedding_model, index, gemini_model >>

(***************************************************************************)
(* Pure helpers of the handlers.                                           *)
(***************************************************************************)
\* {}
EmptyDict == [k \in {} |-> k]

\* dict.get(key, default)
Get(d, k, default) == IF k \in DOMAIN d THEN d[k] ELSE default

\* str.strip()
RECURSIVE LStrip(_)
LStrip(s) ==
  IF s # << >> /\ Head(s) \in Whitespace THEN LStrip(Tail(s)) ELSE s

RECURSIVE RStrip(_)
RStrip(s) ==
  IF s # << >> /\ s[Len(s)] \in Whitespace
  THEN RStrip(SubSeq(s, 1, Len(s) - 1)) ELSE s

Strip(s) == RStrip(LStrip(s))

\* s[:n]
Take(s, n) == SubSeq(s, 1, IF Len(s) < n THEN Len(s) ELSE n)

\* a validation that forgets strip()
QueryIsEmptyNoStrip(q) == Len(q) = 0

\* main.py 171: not request.query or len(request.query.strip()) == 0
QueryIsEmpty(q) == Len(q) = 0 \/ Len(Strip(q)) = 0

\* main.py 174: request.top_k < 1 or request.top_k > 50
TopKOutOfRange(k) == k < TOP_K_MIN \/ k > TOP_K_MAX

\* main.py 170-175: the HTTPException the validation raises, if any
ValidationError(q, k) ==
  IF QueryIsEmpty(q) THEN Some("Query cannot be empty")
  ELSE IF TopKOutOfRange(k) THEN Some("top_k must be between 1 and 50")
  ELSE None

\* main.py 193-202: one RemedyResult per raw hit, in the order returned
RemedyResult(result) ==
  LET meta == Get(result, "meta", EmptyDict)
  IN [ id |-> Get(result, "id", ""),
       remedy_name |-> Get(meta, "remedy_name", "Unknown"),
       alternative_names |-> Get(meta, "alternative_names", ""),
       similarity |-> Get(result, "similarity", 0),
       text_preview |-> Get(meta, "text_preview", ""),
       full_text |-> Get(meta, "full_text", << >>) ]

\* a handler that puts its results in another order than the index did
FormatResultsReversed(results) ==
  [i \in 1..Len(results) |-> RemedyResult(results[Len(results) + 1 - i])]

\* main.py 192-202: remedy_results, appended hit by hit
FormatResults(results) == [i \in 1..Len(results) |-> RemedyResult(results[i])]

\* main.py 275-281: one context section per result, numbered from 1
ContextSection(idx, res) ==
  [ number |-> idx,
    remedy_name |-> res.remedy_name,
    text_preview |-> res.text_preview,
    snippet |-> IF res.full_text # << >>
                THEN Some(Take(res.full_text, SNIPPET_LEN)) ELSE None ]

BuildContext(results) ==
  [i \in 1..Len(results) |-> ContextSection(i, results[i])]

Error(by, kind) == [by |-> by, kind |-> kind]
Detail(msg, cause) == [msg |-> msg, cause |-> cause]

(***************************************************************************)
(* State after the module is imported: main.py 48-51.                      *)
(***************************************************************************)
RequestReset ==
  /\ search_called = 0
  /\ search_outcome = "none"
  /\ encode_calls = 0
  /\ query_log = << >>
  /\ search_res = None
  /\ context_text = None
  /\ cand = 1
  /\ last_error = None
  /\ response = None
  /\ gen_log = << >>
  /\ status = 0
  /\ detail = Detail("", None)
  /\ answer = None
  /\ sources = None

ServeInit ==
  /\ phase = "boot"
  /\ startup_error = "none"
  /\ api_key \in BOOLEAN
  /\ endee_client = "None"
  /\ embedding_model = "None"
  /\ index = "None"
  /\ gemini_model = "None"
  /\ nreq = 0
  /\ handler = "none"
  /\ pc = "idle"
  /\ query = << >>
  /\ top_k = 0
  /\ RequestReset

(***************************************************************************)
(* startup_event: main.py 99-139.  The steps run in order; the first one   *)
(* that raises ends the try block with the globals assigned so far.        *)
(***************************************************************************)
StartupFailures == {"none", "client", "encoder", "index", "gemini"}

\* an except branch that re-raises, so that the process aborts
StartupExceptRaises == "aborted"

\* main.py 134-139: the except branch logs and then sleeps forever
StartupExcept == "sleeping"

startup_event ==
  /\ phase = "boot"
  /\ \E failure \in StartupFailures :
       \* genai.configure and GenerativeModel are reached only with a key
       /\ failure = "gemini" => api_key
       /\ startup_error' = failure
       /\ endee_client' = IF failure = "client" THEN "None" ELSE "client"
       /\ embedding_model' =
            IF failure \in {"client", "encoder"} THEN "None" ELSE "encoder"
       /\ index' =
            IF failure \in {"client", "encoder", "index"} THEN "None" ELSE "handle"
       /\ gemini_model' =
            IF failure = "none" /\ api_key THEN GEMINI_MODEL_FALLBACKS[1] ELSE "None"
       /\ phase' = IF failure = "none" THEN "ready" ELSE StartupExcept
  /\ UNCHANGED << api_key, nreq, handler, pc, query, top_k,
                  search_called, search_outcome, encode_calls, query_log,
                  search_res, context_text, cand, last_error, response, gen_log,
                  status, detail, answer, sources >>

(***************************************************************************)
(* search_remedies: main.py 156-218.                                       *)
(***************************************************************************)
\* a request is taken once startup has completed and the last one has ended
CanReceive ==
  /\ phase = "ready"
  /\ pc \in {"idle", "done", "failed"}
  /\ nreq < MaxRequests

\* a response object kept between requests instead of built per request
FreshRequestKeepsAnswer ==
  /\ nreq' = nreq + 1
  /\ encode_calls' = 0
  /\ query_log' = << >>
  /\ search_res' = None
  /\ context_text' = None
  /\ cand' = 1
  /\ last_error' = None
  /\ response' = None
  /\ gen_log' = << >>
  /\ UNCHANGED << answer, sources >>

\* the per-request record starts empty
FreshRequest ==
  /\ nreq' = nreq + 1
  /\ encode_calls' = 0
  /\ query_log' = << >>
  /\ search_res' = None
  /\ context_text' = None
  /\ cand' = 1
  /\ last_error' = None
  /\ response' = None
  /\ gen_log' = << >>
  /\ answer' = None
  /\ sources' = None

\* main.py 167-177: entry of search_remedies, up to the end of validation;
\* the HTTPException of a rejected request is re-raised as it is (214-215)
EnterSearch(q, k) ==
  /\ search_called' = 1
  /\ LET invalid == ValidationError(q, k)
     IN IF invalid # None
        THEN /\ pc' = "failed"
             /\ status' = 400
             /\ detail' = Detail(invalid[1], None)
             /\ search_outcome' = "rejected"
        ELSE /\ pc' = "encode"
             /\ status' = 0
             /\ detail' = Detail("", None)
             /\ search_outcome' = "running"

\* POST /api/search
ReceiveSearch ==
  /\ CanReceive
  /\ \E q \in Queries, k \in TopKs :
       /\ handler' = "search"
       /\ query' = q
       /\ top_k' = k
       /\ FreshRequest
       /\ EnterSearch(q, k)
  /\ UNCHANGED << phase, startup_error, api_key, globals >>

\* a failure of the search that is swallowed, generation going on without it
SearchFailsThenGenerates(e) ==
  /\ pc' = IF handler = "chat" THEN "generating" ELSE "failed"
  /\ status' = IF handler = "chat" THEN status ELSE 500
  /\ detail' = Detail("Search failed", Some(e))
  /\ search_outcome' = "failed"

\* main.py 216-218: any exception in search_remedies becomes a 500
SearchFails(e) ==
  /\ pc' = "failed"
  /\ status' = 500
  /\ detail' = Detail("Search failed", Some(e))
  /\ search_outcome' = "failed"

\* main.py 180-183: embedding_model.encode
Encode ==
  /\ pc = "encode"
  /\ encode_calls' = encode_calls + 1
  /\ \/ /\ pc' = "query"
        /\ UNCHANGED << status, detail, search_outcome >>
     \/ SearchFails(Error("encoder", "raised"))
  /\ UNCHANGED << phase, startup_error, api_key, globals, nreq, handler, query,
                  top_k, search_called, query_log, search_res, context_text,
                  cand, last_error, response, gen_log, answer, sources >>

\* main.py 208-212
SearchResponse(remedy_results) ==
  [results |-> remedy_results, total_results |-> Len(remedy_results)]

\* main.py 186-212: index.query, then the results are formatted and returned;
\* the chat handler receives them as search_res (main.py 272)
Query ==
  /\ pc = "query"
  /\ \/ \E hits \in QueryReturns(top_k) :
          /\ query_log' = Append(query_log, [ok |-> TRUE, hits |-> hits])
          /\ search_res' = Some(SearchResponse(FormatResults(hits)))
          /\ search_outcome' = "ok"
          /\ pc' = IF handler = "search" THEN "done" ELSE "prompt"
          /\ status' = IF handler = "search" THEN 200 ELSE status
          /\ UNCHANGED detail
     \/ /\ query_log' = Append(query_log, [ok |-> FALSE, hits |-> << >>])
        /\ SearchFails(Error("index", "raised"))
        /\ UNCHANGED search_res
  /\ UNCHANGED << phase, startup_error, api_key, globals, nreq, handler, query,
                  top_k, search_called, encode_calls, context_text,
                  cand, last_error, response, gen_log, answer, sources >>

(***************************************************************************)
(* chat_with_remedies: main.py 261-324.                                    *)
(***************************************************************************)
\* a handler without the check of gemini_model
ChatUnavailableNever == FALSE

\* main.py 267: if not gemini_model
ChatUnavailable == gemini_model = "None"

\* POST /api/chat, main.py 266-272: the credential check, then the search
\* request with top_k=5 enters search_remedies
ReceiveChat ==
  /\ CanReceive
  /\ \E q \in Queries :
       /\ handler' = "chat"
       /\ query' = q
       /\ FreshRequest
       /\ IF ChatUnavailable
          THEN /\ pc' = "failed"
               /\ status' = 503
               /\ detail' = Detail("Gemini model not initialized", None)
               /\ top_k' = 0
               /\ search_called' = 0
               /\ search_outcome' = "none"
          ELSE /\ top_k' = CHAT_TOP_K
               /\ EnterSearch(q, CHAT_TOP_K)
  /\ UNCHANGED << phase, startup_error, api_key, globals >>

\* main.py 274-302: the context is rendered from search_res.results
BuildPrompt ==
  /\ pc = "prompt"
  /\ context_text' = Some(BuildContext(search_res[1].results))
  /\ cand' = 1
  /\ last_error' = None
  /\ response' = None
  /\ pc' = "generating"
  /\ UNCHANGED << phase, startup_error, api_key, globals, nreq, handler, query,
                  top_k, search_called, search_outcome, encode_calls, query_log,
                  search_res, gen_log, status, detail, answer, sources >>

\* a chain whose starting candidate moves on with every request
CandidateRotating(i) ==
  GEMINI_MODEL_FALLBACKS[((i + nreq - 2) % Len(GEMINI_MODEL_FALLBACKS)) + 1]

\* main.py 303: for model_name in GEMINI_MODEL_FALLBACKS
Candidate(i) == GEMINI_MODEL_FALLBACKS[i]

\* main.py 310: continue, and the loop ends after the last candidate
AfterFailure(i) ==
  IF i + 1 > Len(GEMINI_MODEL_FALLBACKS) THEN "respond" ELSE "generating"

\* a loop without the break
AfterSuccessNoBreak(i) == AfterFailure(i)

\* main.py 307: break
AfterSuccess(i) == "respond"

\* an error variable that keeps the first failure
RecordFirstError(previous, e) == IF previous = None THEN Some(e) ELSE previous

\* main.py 309: last_error = e
RecordError(previous, e) == Some(e)

\* what generate_content may return: a response with text, or one whose
\* .text raises (no valid part in it)
Responses(name) ==
  { [by |-> name, text |-> Some(<< "answer", name >>)],
    [by |-> name, text |-> None] }

\* main.py 303-310: one iteration of the fallback loop.  generate_content is
\* called without a timeout: it returns, raises, or does not return, and
\* the handler then stays in the call.  gen_log holds the calls issued, ok
\* telling whether the call returned a response.
Generate ==
  /\ pc = "generating"
  /\ cand <= Len(GEMINI_MODEL_FALLBACKS)
  /\ LET name == Candidate(cand)
     IN \/ \E r \in Responses(name) :
             /\ response' = Some(r)
             /\ gen_log' = Append(gen_log, [model |-> name, ok |-> TRUE])
             /\ cand' = cand + 1
             /\ pc' = AfterSuccess(cand)
             /\ UNCHANGED last_error
        \/ /\ last_error' = RecordError(last_error, Error(name, "raised"))
           /\ gen_log' = Append(gen_log, [model |-> name, ok |-> FALSE])
           /\ cand' = cand + 1
           /\ pc' = AfterFailure(cand)
           /\ UNCHANGED response
        \/ /\ gen_log' = Append(gen_log, [model |-> name, ok |-> FALSE])
           /\ pc' = "in_call"
           /\ UNCHANGED << cand, last_error, response >>
  /\ UNCHANGED << phase, startup_error, api_key, globals, nreq, handler, query,
                  top_k, search_called, search_outcome, encode_calls, query_log,
                  search_res, context_text, status, detail, answer, sources >>

\* sources put in another order than the one the prompt was built from
ChatSourcesReversed(res) ==
  [i \in 1..Len(res.results) |-> res.results[Len(res.results) + 1 - i]]

\* main.py 317: sources=search_res.results
ChatSources(res) == res.results

\* main.py 312-324: the exhausted chain raises a 500 with last_error; a
\* response whose .text raises is a 500 from the outer handler; otherwise
\* the ChatResponse is returned
Respond ==
  /\ pc = "respond"
  /\ IF response = None
     THEN /\ pc' = "failed"
          /\ status' = 500
          /\ detail' = Detail("Chat generation failed", last_error)
          /\ UNCHANGED << answer, sources >>
     ELSE IF response[1].text = None
     THEN /\ pc' = "failed"
          /\ status' = 500
          /\ detail' = Detail("Chat generation failed",
                              Some(Error(response[1].by, "no text")))
          /\ UNCHANGED << answer, sources >>
     ELSE /\ pc' = "done"
          /\ status' = 200
          /\ answer' = response[1].text
          /\ sources' = Some(ChatSources(search_res[1]))
          /\ UNCHANGED detail
  /\ UNCHANGED << phase, startup_error, api_key, globals, nreq, handler, query,
                  top_k, search_called, search_outcome, encode_calls, query_log,
                  search_res, context_text, cand, last_error, response, gen_log >>

\* main.py 138-139: while True: time.sleep(60)
Sleep ==
  /\ phase = "sleeping"
  /\ UNCHANGED vars

(***************************************************************************)
(* backend/ingest.py.  The script runs its steps top to bottom; a step     *)
(* that raises prints the error and calls exit(1).  The index service      *)
(* keeps its indexes and records from one run to the next.                 *)
(***************************************************************************)
\* corpus sizes around the multiples of the batch size
ChunkCounts ==
  {n \in 0..MaxChunks : n % BATCH_SIZE \in {0, 1, 2, BATCH_SIZE - 1}}

\* the content of data/remedy_chunks.json: corpus c with n chunks
Corpora == {"corpus_a", "corpus_b"}
CorpusFiles == [corpus : Corpora, n : ChunkCounts]

\* json.load: the chunk at zero-based position i of the file
Chunk(file, i) ==
  [text |-> << file.corpus, i >>, remedy_name |-> << "remedy", file.corpus, i >>]

LoadedChunks(file) == [k \in 1..file.n |-> Chunk(file, k - 1)]

\* ids that go on numbering after the records the index already holds
ChunkIdAfterExisting(idx) == << "chunk_", Cardinality(server_records) + idx >>

\* ids counted from one
ChunkIdOneBased(idx) == << "chunk_", idx + 1 >>

\* ingest.py 117: f"chunk_{idx}"
ChunkId(idx) == << "chunk_", idx >>

\* ingest.py 112: model.encode(chunk['text'], normalize_embeddings=True)
Embedding(text) == << "embedding", text >>

\* ingest.py 116-129: the vector record of the chunk enumerated as idx
VectorData(idx, chunk) ==
  [ id |-> ChunkId(idx),
    vector |-> Embedding(chunk.text),
    meta |-> [ remedy_name |-> chunk.remedy_name,
               remedy_index |-> Get(chunk, "remedy_index", 0),
               text_preview |-> Take(chunk.text, PREVIEW_LEN),
               full_text |-> chunk.text ],
    filter |-> [ remedy_name |-> chunk.remedy_name,
                 chunk_type |-> Get(chunk, "chunk_type", "flat_window") ] ]

\* ingest.py 110-131: enumerate(chunks) starts at 0
BuildVectors(cs) == [k \in 1..Len(cs) |-> VectorData(k - 1, cs[k])]

\* vectors[i:j]
Slice(v, i, j) == SubSeq(v, i + 1, IF j < Len(v) THEN j ELSE Len(v))

\* ingest.py 145: batch = vectors_to_upsert[i:i + BATCH_SIZE]
Batch(v, i) == Slice(v, i, i + BATCH_SIZE)

\* a step that leaves one record out between two batches
NextOffsetSkips(i) == i + BATCH_SIZE + 1

\* ingest.py 144: range(0, len(vectors_to_upsert), BATCH_SIZE) steps by BATCH_SIZE
NextOffset(i) == i + BATCH_SIZE

\* a prompt whose answer is not looked at
WantsDeleteAlways(u) == TRUE

\* ingest.py 75: user_input.lower() == 'y'
Lower(u) == IF u = "Y" THEN "y" ELSE u
WantsDelete(u) == Lower(u) = "y"

UserInputs == {"y", "Y", "n", ""}

Ids(records) == {r.id : r \in records}
Range(v) == {v[k] : k \in 1..Len(v)}

\* index.upsert: the records of the batch replace those with the same id
Upserted(records, batch) ==
  {r \in records : r.id \notin Ids(Range(batch))} \cup Range(batch)

NoRun == [completed |-> FALSE, file |-> None]

RunReset ==
  /\ chunks = << >>
  /\ existing_names = {}
  /\ user_input = None
  /\ index_ref = "None"
  /\ vectors_to_upsert = << >>
  /\ offset = 0
  /\ lifecycle_log = << >>
  /\ upsert_log = << >>
  /\ failed_step = "none"
  /\ reported_complete = FALSE

IngestInit ==
  /\ server_indexes = {"other_index"}
  /\ server_records = {}
  /\ run = 0
  /\ ipc = "idle"
  /\ corpus_file = None
  /\ at_start = [indexes |-> {}, records |-> {}]
  /\ previous_run = NoRun
  /\ RunReset

serverVars == << server_indexes, server_records >>
runHistory == << run, corpus_file, at_start, previous_run >>

\* an upsert step whose except branch prints the error and goes on
Exit1MissingInUpsert(step) ==
  /\ ipc' = IF step = "upsert" THEN "verify" ELSE "exit"
  /\ failed_step' = step

\* exit(1) in the except branch of a step
Exit1(step) ==
  /\ ipc' = "exit"
  /\ failed_step' = step

\* the operator starts the script over the corpus file then on disk
StartRun ==
  /\ ipc \in {"idle", "exit", "complete"}
  /\ run < MaxRuns
  /\ run' = run + 1
  /\ \E file \in CorpusFiles : corpus_file' = Some(file)
  /\ at_start' = [indexes |-> server_indexes, records |-> server_records]
  /\ previous_run' =
       IF ipc = "idle" THEN NoRun
       ELSE [completed |-> ipc = "complete", file |-> corpus_file]
  /\ ipc' = "connect"
  /\ chunks' = << >>
  /\ existing_names' = {}
  /\ user_input' = None
  /\ index_ref' = "None"
  /\ vectors_to_upsert' = << >>
  /\ offset' = 0
  /\ lifecycle_log' = << >>
  /\ upsert_log' = << >>
  /\ failed_step' = "none"
  /\ reported_complete' = FALSE
  /\ UNCHANGED serverVars

\* ingest.py 29-43: step 1
Connect ==
  /\ ipc = "connect"
  /\ \/ ipc' = "load" /\ UNCHANGED failed_step
     \/ Exit1("connect")
  /\ UNCHANGED << serverVars, runHistory, chunks, existing_names, user_input,
                  index_ref, vectors_to_upsert, offset, lifecycle_log,
                  upsert_log, reported_complete >>

\* ingest.py 45-53: step 2
LoadChunks ==
  /\ ipc = "load"
  /\ \/ /\ chunks' = LoadedChunks(corpus_file[1])
        /\ ipc' = "model"
        /\ UNCHANGED failed_step
     \/ Exit1("load") /\ UNCHANGED chunks
  /\ UNCHANGED << serverVars, runHistory, existing_names, user_input,
                  index_ref, vectors_to_upsert, offset, lifecycle_log,
                  upsert_log, reported_complete >>

\* ingest.py 55-62: step 3
LoadModel ==
  /\ ipc = "model"
  /\ \/ ipc' = "list" /\ UNCHANGED failed_step
     \/ Exit1("model")
  /\ UNCHANGED << serverVars, runHistory, chunks, existing_names, user_input,
                  index_ref, vectors_to_upsert, offset, lifecycle_log,
                  upsert_log, reported_complete >>

\* ingest.py 66-72: client.list_indexes(), then the test of INDEX_NAME
ListIndexes ==
  /\ ipc = "list"
  /\ lifecycle_log' = Append(lifecycle_log, "list")
  /\ \/ /\ existing_names' = server_indexes
        /\ ipc' = IF INDEX_NAME \in server_indexes THEN "prompt" ELSE "relist"
        /\ UNCHANGED failed_step
     \/ Exit1("index") /\ UNCHANGED existing_names
  /\ UNCHANGED << serverVars, runHistory, chunks, user_input,
                  index_ref, vectors_to_upsert, offset,
                  upsert_log, reported_complete >>

\* ingest.py 73-79: the operator answers; 'y' deletes the index
PromptUser ==
  /\ ipc = "prompt"
  /\ \E u \in UserInputs :
       /\ user_input' = Some(u)
       /\ IF WantsDelete(u)
          THEN /\ lifecycle_log' = Append(lifecycle_log, "delete")
               /\ \/ /\ server_indexes' = server_indexes \ {INDEX_NAME}
                     /\ server_records' = {}
                     /\ ipc' = "relist"
                     /\ UNCHANGED failed_step
                  \/ Exit1("index") /\ UNCHANGED serverVars
          ELSE /\ ipc' = "relist"
               /\ UNCHANGED << lifecycle_log, serverVars, failed_step >>
  /\ UNCHANGED << runHistory, chunks, existing_names, index_ref,
                  vectors_to_upsert, offset, upsert_log, reported_complete >>

\* ingest.py 81-85: the second listing decides whether to create
ListIndexesAgain ==
  /\ ipc = "relist"
  /\ lifecycle_log' = Append(lifecycle_log, "list")
  /\ \/ /\ existing_names' = server_indexes
        /\ ipc' = IF INDEX_NAME \notin server_indexes THEN "create" ELSE "get"
        /\ UNCHANGED failed_step
     \/ Exit1("index") /\ UNCHANGED existing_names
  /\ UNCHANGED << serverVars, runHistory, chunks, user_input,
                  index_ref, vectors_to_upsert, offset,
                  upsert_log, reported_complete >>

\* ingest.py 86-95: client.create_index
CreateIndex ==
  /\ ipc = "create"
  /\ lifecycle_log' = Append(lifecycle_log, "create")
  /\ \/ /\ server_indexes' = server_indexes \cup {INDEX_NAME}
        /\ server_records' = {}
        /\ ipc' = "get"
        /\ UNCHANGED failed_step
     \/ Exit1("index") /\ UNCHANGED serverVars
  /\ UNCHANGED << runHistory, chunks, existing_names, user_input,
                  index_ref, vectors_to_upsert, offset,
                  upsert_log, reported_complete >>

\* ingest.py 97-99: client.get_index
GetIndex ==
  /\ ipc = "get"
  /\ lifecycle_log' = Append(lifecycle_log, "get")
  /\ \/ /\ INDEX_NAME \in server_indexes
        /\ index_ref' = INDEX_NAME
        /\ ipc' = "encode"
        /\ UNCHANGED failed_step
     \/ Exit1("index") /\ UNCHANGED index_ref
  /\ UNCHANGED << serverVars, runHistory, chunks, existing_names, user_input,
                  vectors_to_upsert, offset, upsert_log, reported_complete >>

\* ingest.py 105-137: step 5, one vector record per chunk
GenerateEmbeddings ==
  /\ ipc = "encode"
  /\ \/ /\ vectors_to_upsert' = BuildVectors(chunks)
        /\ ipc' = "upsert"
        /\ UNCHANGED failed_step
     \/ /\ chunks # << >>
        /\ Exit1("encode")
        /\ UNCHANGED vectors_to_upsert
  /\ UNCHANGED << serverVars, runHistory, chunks, existing_names, user_input,
                  index_ref, offset, lifecycle_log, upsert_log,
                  reported_complete >>

\* ingest.py 144-149, 154-156: one iteration of the upsert loop; a call that
\* raises may or may not have written its batch
UpsertBatch ==
  /\ ipc = "upsert"
  /\ offset < Len(vectors_to_upsert)
  /\ LET batch == Batch(vectors_to_upsert, offset)
     IN \/ /\ server_records' = Upserted(server_records, batch)
           /\ upsert_log' = Append(upsert_log, [batch |-> batch, ok |-> TRUE])
           /\ offset' = NextOffset(offset)
           /\ UNCHANGED << ipc, failed_step >>
        \/ /\ upsert_log' = Append(upsert_log, [batch |-> batch, ok |-> FALSE])
           /\ Exit1("upsert")
           /\ server_records' \in {server_records, Upserted(server_records, batch)}
           /\ UNCHANGED offset
  /\ UNCHANGED << server_indexes, runHistory, chunks, existing_names,
                  user_input, index_ref, vectors_to_upsert, lifecycle_log,
                  reported_complete >>

\* ingest.py 152: the loop is over
UpsertDone ==
  /\ ipc = "upsert"
  /\ offset >= Len(vectors_to_upsert)
  /\ ipc' = "verify"
  /\ UNCHANGED << serverVars, runHistory, chunks, existing_names, user_input,
                  index_ref, vectors_to_upsert, offset, lifecycle_log,
                  upsert_log, failed_step, reported_complete >>

\* ingest.py 163-199: step 7 prints the probe's hits or its error, and the
\* summary follows either way
Verify ==
  /\ ipc = "verify"
  /\ \/ UNCHANGED failed_step
     \/ failed_step' = "verify"
  /\ ipc' = "complete"
  /\ reported_complete' = TRUE
  /\ UNCHANGED << serverVars, runHistory, chunks, existing_names, user_input,
                  index_ref, vectors_to_upsert, offset, lifecycle_log,
                  upsert_log >>

Init == ServeInit /\ IngestInit

Next ==
  \/ startup_event /\ UNCHANGED ingestVars
  \/ ReceiveSearch /\ UNCHANGED ingestVars
  \/ Encode /\ UNCHANGED ingestVars
  \/ Query /\ UNCHANGED ingestVars
  \/ ReceiveChat /\ UNCHANGED ingestVars
  \/ BuildPrompt /\ UNCHANGED ingestVars
  \/ Generate /\ UNCHANGED ingestVars
  \/ Respond /\ UNCHANGED ingestVars
  \/ Sleep

Spec == Init /\ [][Next]_vars

\* the ingestion script runs on its own, the serving process not started
InitIngest == Init /\ ~api_key

NextIngest ==
  \/ StartRun /\ UNCHANGED serveVars
  \/ Connect /\ UNCHANGED serveVars
  \/ LoadChunks /\ UNCHANGED serveVars
  \/ LoadModel /\ UNCHANGED serveVars
  \/ ListIndexes /\ UNCHANGED serveVars
  \/ PromptUser /\ UNCHANGED serveVars
  \/ ListIndexesAgain /\ UNCHANGED serveVars
  \/ CreateIndex /\ UNCHANGED serveVars
  \/ GetIndex /\ UNCHANGED serveVars
  \/ GenerateEmbeddings /\ UNCHANGED serveVars
  \/ UpsertBatch /\ UNCHANGED serveVars
  \/ UpsertDone /\ UNCHANGED serveVars
  \/ Verify /\ UNCHANGED serveVars

SpecIngest == InitIngest /\ [][NextIngest]_vars

(***************************************************************************)
(* Properties of the serving process (checked under Spec).                 *)
(***************************************************************************)
ChatEnded == handler = "chat" /\ pc \in {"done", "failed"}

AllFailed(log) == \A i \in 1..Len(log) : ~log[i].ok

\* C1: in a chat request that passed retrieval the candidates are called in
\* list order, each at most once; a call that succeeds is the last call of
\* the request (no later candidate is called); and the answer returned is
\* the output of that candidate.
FallbackStopsAtFirstSuccess ==
  /\ Len(gen_log) <= Len(GEMINI_MODEL_FALLBACKS)
  /\ \A i \in 1..Len(gen_log) :
       /\ gen_log[i].model = GEMINI_MODEL_FALLBACKS[i]
       /\ gen_log[i].ok => i = Len(gen_log)
  /\ gen_log # << >> => handler = "chat" /\ search_outcome = "ok"
  /\ (handler = "chat" /\ pc = "done") =>
       /\ gen_log # << >>
       /\ gen_log[Len(gen_log)].ok
       /\ answer = Some(<< "answer", GEMINI_MODEL_FALLBACKS[Len(gen_log)] >>)

\* candidate 1 failed, candidate 2 succeeded and its answer was returned
FallbackSecondCandidateAnswers ==
  /\ handler = "chat"
  /\ pc = "done"
  /\ Len(gen_log) = 2
  /\ ~gen_log[1].ok
  /\ answer = Some(<< "answer", GEMINI_MODEL_FALLBACKS[2] >>)

\* C2: when every candidate of the chain has failed the request ends failed,
\* with the failure of the last candidate of the list as its error and with
\* no answer; and a chat request that ends successfully carries the output
\* of a candidate whose call succeeded.
FallbackExhaustionFails ==
  /\ ( /\ ChatEnded
       /\ Len(gen_log) = Len(GEMINI_MODEL_FALLBACKS)
       /\ AllFailed(gen_log) )
     => /\ pc = "failed"
        /\ status = 500
        /\ detail = Detail("Chat generation failed",
                           Some(Error(GEMINI_MODEL_FALLBACKS[Len(GEMINI_MODEL_FALLBACKS)],
                                      "raised")))
        /\ answer = None
        /\ sources = None
  /\ (handler = "chat" /\ pc = "done") =>
       \E i \in 1..Len(gen_log) :
         gen_log[i].ok /\ answer = Some(<< "answer", gen_log[i].model >>)

\* all four candidates were called and failed, and the request has ended
FallbackExhausted ==
  /\ ChatEnded
  /\ Len(gen_log) = Len(GEMINI_MODEL_FALLBACKS)
  /\ AllFailed(gen_log)
  /\ status = 500

\* empty or whitespace-only, read off the characters
Blank(q) == \A i \in 1..Len(q) : q[i] \in {" ", "\t"}

InvalidSearch == Blank(query) \/ top_k < 1 \/ top_k > 50

\* C3: a request that entered search_remedies (directly or from the chat
\* handler) with a blank query or a top_k outside 1..50 is rejected with the
\* validation error 400, and neither the encoder nor the index was called.
ValidationRejectsBeforeCalls ==
  (search_called > 0 /\ InvalidSearch) =>
    /\ pc = "failed"
    /\ status = 400
    /\ search_outcome = "rejected"
    /\ encode_calls = 0
    /\ query_log = << >>
    /\ gen_log = << >>

\* a whitespace-only query rejected on the chat path
WhitespaceQueryRejectedInChat ==
  /\ handler = "chat"
  /\ search_called > 0
  /\ Len(query) > 0
  /\ Blank(query)
  /\ status = 400

\* C4: a chat request whose retrieval failed (rejected, or the encoder or the
\* index raised) has ended failed, with no prompt built and no candidate
\* called.
RetrievalFailureIsTerminal ==
  (handler = "chat" /\ search_outcome \in {"rejected", "failed"}) =>
    /\ pc = "failed"
    /\ status \in {400, 500}
    /\ context_text = None
    /\ gen_log = << >>
    /\ answer = None

\* the index query of a chat request raised
ChatRetrievalFailed ==
  /\ handler = "chat"
  /\ search_outcome = "failed"
  /\ query_log # << >>
  /\ ~query_log[1].ok

\* C5: without a generation credential a startup in which nothing raises
\* completes; a chat request then fails with 503 before the encoder, the
\* index or any candidate is called; and a search request is served as
\* with a credential: rejected with 400 exactly when invalid, answered with
\* the formatted hits of its one index query, never 503.
DegradedWithoutCredential ==
  /\ (~api_key /\ phase # "boot") =>
       /\ startup_error # "gemini"
       /\ gemini_model = "None"
       /\ startup_error = "none" => phase = "ready"
  /\ (~api_key /\ handler = "chat") =>
       /\ pc = "failed"
       /\ status = 503
       /\ search_called = 0
       /\ encode_calls = 0
       /\ query_log = << >>
       /\ gen_log = << >>
  /\ (~api_key /\ handler = "search") =>
       /\ status \in {0, 200, 400, 500}
       /\ status = 400 <=> InvalidSearch
       /\ pc = "done" =>
            /\ status = 200
            /\ Len(query_log) = 1
            /\ search_res # None
            /\ search_res[1].total_results = Len(query_log[1].hits)
            /\ \A i \in 1..Len(query_log[1].hits) :
                 search_res[1].results[i].id = query_log[1].hits[i].id

\* without a credential: a search was answered and then a chat got 503
DegradedChatUnavailable ==
  /\ ~api_key
  /\ phase = "ready"
  /\ nreq = 2
  /\ handler = "chat"
  /\ status = 503

SourcesAreThePromptContext ==
  (handler = "chat" /\ pc = "done") =>
    /\ search_called = 1
    /\ encode_calls = 1
    /\ Len(query_log) = 1
    /\ query_log[1].ok
    /\ sources # None
    /\ context_text # None
    /\ Len(sources[1]) = Len(query_log[1].hits)
    /\ Len(context_text[1]) = Len(sources[1])
    /\ \A i \in 1..Len(sources[1]) :
         /\ sources[1][i].id = query_log[1].hits[i].id
         /\ sources[1][i].similarity = query_log[1].hits[i].similarity
         /\ context_text[1][i].number = i
         /\ context_text[1][i].remedy_name = sources[1][i].remedy_name
         /\ context_text[1][i].text_preview = sources[1][i].text_preview

\* an answer of the third candidate over two sources
ChatAnsweredOverTwoSources ==
  /\ handler = "chat"
  /\ pc = "done"
  /\ Len(gen_log) = 3
  /\ Len(sources[1]) = 2

(***************************************************************************)
(* Properties of the ingestion script (checked under SpecIngest).          *)
(***************************************************************************)
CeilDiv(n, d) == (n + d - 1) \div d
Min(a, b) == IF a < b THEN a ELSE b

RECURSIVE ConcatBatches(_)
ConcatBatches(log) ==
  IF log = << >> THEN << >>
  ELSE ConcatBatches(SubSeq(log, 1, Len(log) - 1)) \o log[Len(log)].batch

AllOk(log) == \A k \in 1..Len(log) : log[k].ok

\* C7: the k-th upsert call of a run carries the records at positions
\* 50*(k-1) .. min(50*k, N)-1 of the N vector records, in input order, and a
\* call is issued only after the one before it returned; once the upsert
\* step is over there have been ceil(N/50) calls, every one but the last
\* with 50 records, and their concatenation is the record sequence.
BatchesAreContiguousSlices ==
  LET N == Len(vectors_to_upsert)
  IN /\ \A k \in 1..Len(upsert_log) :
          /\ Len(upsert_log[k].batch) = Min(50 * k, N) - 50 * (k - 1)
          /\ \A j \in 1..Len(upsert_log[k].batch) :
               upsert_log[k].batch[j] = vectors_to_upsert[50 * (k - 1) + j]
          /\ k < Len(upsert_log) => upsert_log[k].ok
     /\ \A k \in 1..N : vectors_to_upsert[k].id = << "chunk_", k - 1 >>
     /\ ipc \in {"verify", "complete"} =>
          /\ N = Len(chunks)
          /\ Len(upsert_log) = CeilDiv(N, 50)
          /\ AllOk(upsert_log)
          /\ \A k \in 1..(Len(upsert_log) - 1) : Len(upsert_log[k].batch) = 50
          /\ ConcatBatches(upsert_log) = vectors_to_upsert

\* 51 records went out as a batch of 50 and a batch of 1
TwoBatchesLastOfOne ==
  /\ ipc = "complete"
  /\ Len(vectors_to_upsert) = 51
  /\ Len(upsert_log) = 2
  /\ Len(upsert_log[2].batch) = 1

\* this run found the index and the operator did not answer 'y'
ReuseChosen ==
  /\ INDEX_NAME \in at_start.indexes
  /\ user_input # None
  /\ user_input[1] \notin {"y", "Y"}

\* this run is a second run over the corpus of the completed run before it
SecondRunSameCorpus ==
  /\ previous_run.completed
  /\ previous_run.file = corpus_file

\* C8: a run that completes over the corpus of the completed run before it,
\* with reuse chosen, leaves the index with the ids and the record count it
\* had when the run started; the chunk at position i is held under
\* chunk_i after either run.
ReingestWithReuseKeepsIds ==
  (ipc = "complete" /\ SecondRunSameCorpus /\ ReuseChosen) =>
    /\ Ids(server_records) = Ids(at_start.records)
    /\ Cardinality(server_records) = Cardinality(at_start.records)
    /\ INDEX_NAME \in server_indexes
    /\ \A i \in 0..(Len(chunks) - 1) :
         /\ \E r \in server_records :
              r.id = << "chunk_", i >> /\ r.meta.full_text = chunks[i + 1].text
         /\ \E r \in at_start.records :
              r.id = << "chunk_", i >> /\ r.meta.full_text = chunks[i + 1].text

\* a second run over the same 51 chunks completed on the reused index
SecondRunReusedIndex ==
  /\ ipc = "complete"
  /\ SecondRunSameCorpus
  /\ ReuseChosen
  /\ Len(chunks) = 51
  /\ Len(upsert_log) = 2

\* C9: a step of the run that raised (connecting, loading the corpus,
\* loading the encoder, resolving the index, encoding, an upsert) has ended
\* the run with exit(1): no later step ran and completion is not reported;
\* the upsert that raised is the last call issued.  A probe query that
\* raised leaves the run complete.
FailedStepAbortsRun ==
  /\ failed_step \in {"connect", "load", "model", "index", "encode", "upsert"} =>
       /\ ipc = "exit"
       /\ ~reported_complete
  /\ failed_step \in {"connect", "load"} => chunks = << >>
  /\ failed_step \in {"connect", "load", "model"} =>
       /\ lifecycle_log = << >>
       /\ server_indexes = at_start.indexes
       /\ server_records = at_start.records
  /\ failed_step \in {"connect", "load", "model", "index"} =>
       index_ref = "None" /\ vectors_to_upsert = << >>
  /\ failed_step \in {"connect", "load", "model", "index", "encode"} =>
       upsert_log = << >>
  /\ failed_step = "upsert" =>
       /\ upsert_log # << >>
       /\ ~upsert_log[Len(upsert_log)].ok
       /\ \A k \in 1..(Len(upsert_log) - 1) : upsert_log[k].ok
  /\ failed_step = "verify" => ipc = "complete" /\ reported_complete
  /\ reported_complete =>
       /\ ipc = "complete"
       /\ AllOk(upsert_log)
       /\ Len(upsert_log) = CeilDiv(Len(chunks), 50)

\* the second batch raised after the first was committed
SecondBatchRaised ==
  /\ failed_step = "upsert"
  /\ ipc = "exit"
  /\ Len(upsert_log) = 2
  /\ upsert_log[1].ok

SortedBySimilarity(s) ==
  \A i \in 1..(Len(s) - 1) : s[i].similarity >= s[i + 1].similarity

\* C11: a search with a non-blank query and top_k in 1..50 that is answered
\* returns one result per raw hit of its index query, in the order of the
\* hits, none dropped, repeated or moved; so at most top_k results,
\* non-increasing in similarity whenever the hits were, and total_results
\* is the number of results.
SearchKeepsIndexOrder ==
  (handler = "search" /\ pc = "done") =>
    /\ ~InvalidSearch
    /\ Len(query_log) = 1
    /\ search_res # None
    /\ LET hits == query_log[1].hits
           results == search_res[1].results
       IN /\ Len(results) = Len(hits)
          /\ Len(results) <= top_k
          /\ search_res[1].total_results = Len(results)
          /\ \A i \in 1..Len(hits) :
               /\ results[i].id = hits[i].id
               /\ results[i].similarity = hits[i].similarity
          /\ SortedBySimilarity(hits) => SortedBySimilarity(results)

\* two hits of different similarity came back in the index's order
SearchReturnedTwoRanked ==
  /\ handler = "search"
  /\ pc = "done"
  /\ Len(search_res[1].results) = 2
  /\ search_res[1].results[1].similarity > search_res[1].results[2].similarity

\* C12: a chat request whose candidate does not return still advances: a
\* chat request that has not ended can always take a step.
HungCandidateDoesNotBlock ==
  handler = "chat" => (pc \in {"done", "failed"} \/ ENABLED Next)

\* C13: in every chat request, whatever its query and whatever the requests
\* before it did, the i-th generation call goes to the i-th entry of the
\* fallback list, and no candidate is called twice in the request.
FallbackOrderIsStatic ==
  /\ cand \in 1..(Len(GEMINI_MODEL_FALLBACKS) + 1)
  /\ \A i \in 1..Len(gen_log) :
       /\ i <= Len(GEMINI_MODEL_FALLBACKS)
       /\ gen_log[i].model = GEMINI_MODEL_FALLBACKS[i]
       /\ \A j \in 1..Len(gen_log) : gen_log[j].model = gen_log[i].model => j = i
  /\ pc = "generating" => Len(gen_log) = cand - 1

\* a second request went through the whole list, from its first entry on
SecondRequestTriedWholeList ==
  /\ nreq = 2
  /\ handler = "chat"
  /\ Len(gen_log) = Len(GEMINI_MODEL_FALLBACKS)
  /\ gen_log[1].model = GEMINI_MODEL_FALLBACKS[1]

Calls(log, call) == {k \in 1..Len(log) : log[k] = call}

\* C14: in a run, delete is issued only after a listing that held the target
\* name and an answer 'y'; create is issued at most once, right after a
\* listing that did not hold the name; with reuse chosen neither is issued
\* and index and records stay as they were until the first upsert; and once
\* the index handle is held the target index exists, before any upsert.
IndexLifecycleObeysDecision ==
  /\ Calls(lifecycle_log, "delete") # {} =>
       /\ Calls(lifecycle_log, "delete") = {2}
       /\ lifecycle_log[1] = "list"
       /\ INDEX_NAME \in at_start.indexes
       /\ user_input \in {<< "y" >>, << "Y" >>}
  /\ Cardinality(Calls(lifecycle_log, "create")) <= 1
  /\ \A k \in Calls(lifecycle_log, "create") :
       /\ k > 1
       /\ lifecycle_log[k - 1] = "list"
       /\ INDEX_NAME \notin existing_names
       /\ Calls(lifecycle_log, "delete") # {} \/ INDEX_NAME \notin at_start.indexes
  /\ ReuseChosen =>
       /\ Calls(lifecycle_log, "delete") = {}
       /\ Calls(lifecycle_log, "create") = {}
       /\ upsert_log = << >> =>
            /\ server_records = at_start.records
            /\ server_indexes = at_start.indexes
  /\ index_ref # "None" =>
       /\ index_ref = INDEX_NAME
       /\ INDEX_NAME \in server_indexes
       /\ lifecycle_log[Len(lifecycle_log)] = "get"
  /\ upsert_log # << >> => index_ref # "None"

\* the index was found, deleted on 'y' and created again, and the run completed
DeletedAndRecreated ==
  /\ ipc = "complete"
  /\ lifecycle_log = << "list", "delete", "list", "create", "get" >>
  /\ at_start.records # {}
  /\ upsert_log # << >>

ChunkIdsBelow(n) == {<< "chunk_", i >> : i \in 0..(n - 1)}

HoldsChunk(records, i, chunk) ==
  \E r \in records : r.id = << "chunk_", i >> /\ r.meta.full_text = chunk.text

\* C15: a run over N chunks that completes on an index it created (fresh,
\* or after the delete) leaves exactly N records, chunk_0 .. chunk_(N-1),
\* chunk_i carrying the i-th chunk, and nothing of an earlier run; with
\* reuse chosen the records the index held under ids chunk_N and above are
\* still there beside them.
CompletedRunIndexContent ==
  LET N == Len(chunks)
  IN ipc = "complete" =>
       /\ \A i \in 0..(N - 1) : HoldsChunk(server_records, i, chunks[i + 1])
       /\ Calls(lifecycle_log, "create") # {} =>
            /\ Cardinality(server_records) = N
            /\ Ids(server_records) = ChunkIdsBelow(N)
            /\ server_records = Range(vectors_to_upsert)
       /\ ReuseChosen =>
            /\ {r \in at_start.records : r.id[2] >= N} \subseteq server_records
            /\ server_records =
                 Range(vectors_to_upsert)
                   \cup {r \in at_start.records : r.id[2] >= N}

\* a shorter corpus went into the reused index of a longer one
ReuseKeptOldRecords ==
  /\ ipc = "complete"
  /\ ReuseChosen
  /\ Len(chunks) = 2
  /\ Cardinality(server_records) = 51
  /\ \E r \in server_records :
       r.id = << "chunk_", 50 >> /\ r.meta.full_text[1] # chunks[1].text[1]

\* what the request returns when it runs alone: read off its own input,
\* the shared handles and the responses its own calls got
OutcomeAlone ==
  IF handler = "chat" /\ gemini_model = "None"
  THEN [status |-> 503, results |-> None, answer |-> None, sources |-> None]
  ELSE IF InvalidSearch
  THEN [status |-> 400, results |-> None, answer |-> None, sources |-> None]
  ELSE IF query_log = << >> \/ ~query_log[1].ok
  THEN [status |-> 500, results |-> None, answer |-> None, sources |-> None]
  ELSE LET found == [i \in 1..Len(query_log[1].hits) |->
                       RemedyResult(query_log[1].hits[i])]
       IN IF handler = "search"
          THEN [status |-> 200, results |-> Some(found),
                answer |-> None, sources |-> None]
          ELSE IF gen_log = << >> \/ ~gen_log[Len(gen_log)].ok
                  \/ response[1].text = None
          THEN [status |-> 500, results |-> Some(found),
                answer |-> None, sources |-> None]
          ELSE [status |-> 200, results |-> Some(found),
                answer |-> Some(<< "answer", gen_log[Len(gen_log)].model >>),
                sources |-> Some(found)]

OutcomeReturned ==
  [ status |-> status,
    results |-> IF search_res = None THEN None ELSE Some(search_res[1].results),
    answer |-> answer,
    sources |-> sources ]

====
